---- MODULE Spec2Model ----
(***************************************************************************)
(* Model of alexa_skill_backend.py: the Alexa webhook handler              *)
(* alexa_webhook and the functions it awaits (verify_alexa_request,        *)
(* extract_user_intent_and_text, respond_to_user).                         *)
(*                                                                         *)
(* JSON values are tagged records: [k |-> "null"], [k |-> "str", v |-> s], *)
(* [k |-> "list"], [k |-> "obj", v |-> f] with f a function from member    *)
(* names to JSON values.  A Python call either returns a value, Ok(v), or  *)
(* raises, Raise(e).                                                       *)
(***************************************************************************)
EXTENDS Integers, Sequences, FiniteSets, TLC

VARIABLES pc, body, alexa_request, is_valid, intent, user_text, result,
          called, served, cpc, utterance, choice

vars == <<pc, body, alexa_request, is_valid, intent, user_text, result,
          called, served, cpc, utterance, choice>>

webhookVars == <<pc, body, alexa_request, is_valid, intent, user_text,
                 result, called, served>>

classifyVars == <<cpc, utterance, choice>>

-----------------------------------------------------------------------------
(* Bounds of the model *)

\* number of webhook calls one behaviour serves
MaxCalls == 2

\* number of fragments an utterance given to the classifier is built from
MaxFrags == 2

-----------------------------------------------------------------------------
(* JSON values and Python results *)

Null == [k |-> "null"]

Str(s) == [k |-> "str", v |-> s]

\* the empty JSON array []
List == [k |-> "list"]

\* marks a member that the object does not have
Absent == [k |-> "absent"]

\* the object whose members are the fields of f that are not Absent
MkObj(f) ==
    [k |-> "obj", v |-> [key \in {x \in DOMAIN f : f[x].k # "absent"} |-> f[key]]]

\* the Python literal {}
EmptyObj == [k |-> "obj", v |-> <<>>]

NoValue == [k |-> "unset"]

Ok(v) == [exc |-> "none", v |-> v]

Raise(e) == [exc |-> e]

Raised(r) == r.exc # "none"

\* d.get(key, default): AttributeError unless d is a dict
dict_get(d, key, default) ==
    IF d.k # "obj" THEN Raise("AttributeError")
    ELSE Ok(IF key \in DOMAIN d.v THEN d.v[key] ELSE default)

\* key in d, for d a dict or None
py_in(key, d) ==
    IF d.k = "obj" THEN Ok(key \in DOMAIN d.v) ELSE Raise("TypeError")

\* truth value of a JSON value in an if
Truthy(x) ==
    CASE x.k = "null" -> FALSE
      [] x.k = "str"  -> x.v # ""
      [] x.k = "list" -> FALSE
      [] x.k = "obj"  -> DOMAIN x.v # {}

\* x == "literal"
EqStr(x, s) == x.k = "str" /\ x.v = s

\* {x} inside an f-string
Format(x) == IF x.k = "null" THEN "None" ELSE x.v

-----------------------------------------------------------------------------
(* Configuration *)

ALEXA_SKILL_ID == "your-alexa-skill-id"

\* the placeholder gate: returns True for every request
verify_alexa_request == TRUE

-----------------------------------------------------------------------------
(* Inbound bodies *)

QueryValues ==
    {Absent, Null, Str(""), Str("tell me a joke"), Str("latest news on X")}

QuerySlots ==
    {Absent, Null, Str("weather")} \cup {MkObj([value |-> v]) : v \in QueryValues}

SlotMaps == {Absent, Null} \cup {MkObj([query |-> q]) : q \in QuerySlots}

IntentNames ==
    {Absent, Null, Str("Foo"), Str("LaunchRequest"), Str("SessionEndedRequest")}

Intents ==
    {Absent, Null} \cup {MkObj([name |-> n, slots |-> s]) : n \in IntentNames, s \in SlotMaps}

TypeTags ==
    {Absent, Null, Str("LaunchRequest"), Str("IntentRequest"),
     Str("SessionEndedRequest"), Str("CanFulfillIntentRequest")}

Requests ==
    {Absent, Null} \cup {MkObj([type |-> t, intent |-> i]) : t \in TypeTags, i \in Intents}

ApplicationIds == {Absent, Null, Str(ALEXA_SKILL_ID), Str("another-skill-id")}

Applications ==
    {Absent, Null} \cup {MkObj([applicationId |-> a]) : a \in ApplicationIds}

Attributes ==
    {Absent, Null, EmptyObj, MkObj([turn |-> Str("1")]),
     MkObj([turn |-> Str("2"), topic |-> Str("news")])}

Sessions ==
    {Absent, Null, Str("session")}
        \cup {MkObj([application |-> a, attributes |-> t]) : a \in Applications, t \in Attributes}

JsonBodies ==
    {Null, Str("hello"), List}
        \cup {MkObj([session |-> s, request |-> r]) : s \in Sessions, r \in Requests}

\* a body is bytes that json.loads rejects, bytes that are no valid UTF-8,
\* or the text of a JSON value
Bodies ==
    {[bytes |-> "invalid_json"], [bytes |-> "invalid_encoding"]}
        \cup {[bytes |-> "json", value |-> j] : j \in JsonBodies}

\* json.loads(body)
json_loads(b) ==
    CASE b.bytes = "invalid_json"     -> Raise("JSONDecodeError")
      [] b.bytes = "invalid_encoding" -> Raise("UnicodeDecodeError")
      [] b.bytes = "json"             -> Ok(b.value)

-----------------------------------------------------------------------------
(* extract_user_intent_and_text *)

Extracted(i, t) == Ok([intent |-> i, user_text |-> t])

\* the IntentRequest branch, given request = alexa_request["request"]
extract_intent_request(request) ==
    LET i == dict_get(request, "intent", EmptyObj) IN
    IF Raised(i) THEN i ELSE
    LET intent_name == dict_get(i.v, "name", Str("Unknown")) IN
    IF Raised(intent_name) THEN intent_name ELSE
    LET slots == dict_get(i.v, "slots", EmptyObj) IN
    IF Raised(slots) THEN slots ELSE
    LET has == py_in("query", slots.v) IN
    IF Raised(has) THEN has ELSE
    IF ~has.v THEN Extracted(intent_name.v, Str("Intent: " \o Format(intent_name.v)))
    ELSE
    LET value == dict_get(slots.v.v["query"], "value", Null) IN
    IF Raised(value) THEN value ELSE
    IF Truthy(value.v) THEN Extracted(intent_name.v, value.v)
    ELSE Extracted(intent_name.v, Str("Intent: " \o Format(intent_name.v)))

extract_user_intent_and_text(req) ==
    LET request == dict_get(req, "request", EmptyObj) IN
    IF Raised(request) THEN request ELSE
    LET request_type == dict_get(request.v, "type", Null) IN
    IF Raised(request_type) THEN request_type ELSE
    CASE EqStr(request_type.v, "LaunchRequest") ->
            Extracted(Str("LaunchRequest"), Str("launch skill"))
      [] EqStr(request_type.v, "IntentRequest") ->
            extract_intent_request(request.v)
      [] EqStr(request_type.v, "SessionEndedRequest") ->
            Extracted(Str("SessionEndedRequest"), Str("end session"))
      [] OTHER ->
            Extracted(Str("Unknown"), Str("unknown request"))

-----------------------------------------------------------------------------
(* respond_to_user *)

WelcomeText == "Welcome to the Strands Alexa Agent! How can I help you today?"

GoodbyeText == "Goodbye!"

ApologyText == "Sorry, I'm having trouble right now. Please try again later."

EchoText(t) ==
    "I heard you say: " \o Format(t) \o ". I'm still learning how to respond to that!"

Speech(text, end) ==
    [outputSpeech |-> [type |-> "PlainText", text |-> text], shouldEndSession |-> end]

\* respond_to_user with the SessionEndedRequest branch lost: the goodbye falls
\* through to the echo
respond_to_user_no_goodbye(i, t, session_attributes) ==
    [version |-> "1.0",
     sessionAttributes |-> session_attributes,
     response |->
        CASE EqStr(i, "LaunchRequest") -> Speech(WelcomeText, FALSE)
          [] OTHER                     -> Speech(EchoText(t), FALSE)]

respond_to_user(i, t, session_attributes) ==
    [version |-> "1.0",
     sessionAttributes |-> session_attributes,
     response |->
        CASE EqStr(i, "LaunchRequest")       -> Speech(WelcomeText, FALSE)
          [] EqStr(i, "SessionEndedRequest") -> Speech(GoodbyeText, TRUE)
          [] OTHER                           -> Speech(EchoText(t), FALSE)]

\* the envelope of the catch-all handler
error_response ==
    [version |-> "1.0", response |-> Speech(ApologyText, TRUE)]

-----------------------------------------------------------------------------
(* alexa_webhook *)

HTTPException(status, detail) ==
    [kind |-> "HTTPException", status_code |-> status, detail |-> detail]

JSONResponse(content, status) ==
    [kind |-> "JSONResponse", status_code |-> status, content |-> content]

NoResult == [kind |-> "none"]

NoBody == [bytes |-> "none"]

\* except HTTPException: raise / except Exception: return the apology
Handled(exc) ==
    IF exc.kind = "HTTPException" THEN exc ELSE JSONResponse(error_response, 500)

OtherException(r) == [kind |-> r.exc]

\* alexa_request.get("session", {}).get("application", {}).get("applicationId")
application_id_of(req) ==
    LET s == dict_get(req, "session", EmptyObj) IN
    IF Raised(s) THEN s ELSE
    LET a == dict_get(s.v, "application", EmptyObj) IN
    IF Raised(a) THEN a ELSE dict_get(a.v, "applicationId", Null)

\* the check skipped when the request names no application
not_for_this_skill_if_named(application_id) ==
    Truthy(application_id) /\ ~EqStr(application_id, ALEXA_SKILL_ID)

\* if ALEXA_SKILL_ID and application_id != ALEXA_SKILL_ID
not_for_this_skill(application_id) ==
    ALEXA_SKILL_ID # "" /\ ~EqStr(application_id, ALEXA_SKILL_ID)

\* alexa_request.get("session", {}).get("attributes", {})
session_attributes_of(req) ==
    LET s == dict_get(req, "session", EmptyObj) IN
    IF Raised(s) THEN s ELSE dict_get(s.v, "attributes", EmptyObj)

Finish(r) ==
    /\ result' = r
    /\ pc' = "done"

\* the transport hands one request to the handler
Receive ==
    /\ pc = "idle"
    /\ served < MaxCalls
    /\ \E b \in Bodies : body' = b
    /\ pc' = "parse"
    /\ UNCHANGED <<alexa_request, is_valid, intent, user_text, result, called, served,
                   classifyVars>>

\* body = await request.body(); alexa_request = json.loads(body)
ParseBody ==
    /\ pc = "parse"
    /\ LET r == json_loads(body) IN
       IF r.exc = "JSONDecodeError"
       THEN /\ Finish(Handled(HTTPException(400, "Invalid JSON in request body")))
            /\ UNCHANGED alexa_request
       ELSE IF Raised(r)
       THEN /\ Finish(Handled(OtherException(r)))
            /\ UNCHANGED alexa_request
       ELSE /\ alexa_request' = r.v
            /\ pc' = "verify"
            /\ UNCHANGED result
    /\ UNCHANGED <<body, is_valid, intent, user_text, called, served, classifyVars>>

\* is_valid = await verify_alexa_request(request)
VerifyRequest ==
    /\ pc = "verify"
    /\ is_valid' = verify_alexa_request
    /\ called' = called \cup {"verify_alexa_request"}
    /\ IF ~is_valid'
       THEN Finish(Handled(HTTPException(401, "Invalid Alexa request")))
       ELSE pc' = "check_skill" /\ UNCHANGED result
    /\ UNCHANGED <<body, alexa_request, intent, user_text, served, classifyVars>>

\* the applicationId check
CheckSkillId ==
    /\ pc = "check_skill"
    /\ LET a == application_id_of(alexa_request) IN
       IF Raised(a)
       THEN Finish(Handled(OtherException(a)))
       ELSE IF not_for_this_skill(a.v)
       THEN Finish(Handled(HTTPException(401, "Request not for this skill")))
       ELSE pc' = "extract" /\ UNCHANGED result
    /\ UNCHANGED <<body, alexa_request, is_valid, intent, user_text, called, served,
                   classifyVars>>

\* intent, user_text = await extract_user_intent_and_text(alexa_request)
ExtractIntent ==
    /\ pc = "extract"
    /\ called' = called \cup {"extract_user_intent_and_text"}
    /\ LET e == extract_user_intent_and_text(alexa_request) IN
       IF Raised(e)
       THEN /\ Finish(Handled(OtherException(e)))
            /\ UNCHANGED <<intent, user_text>>
       ELSE /\ intent' = e.v.intent
            /\ user_text' = e.v.user_text
            /\ pc' = "respond"
            /\ UNCHANGED result
    /\ UNCHANGED <<body, alexa_request, is_valid, served, classifyVars>>

\* session_attributes = ...; response = await respond_to_user(...); return
Respond ==
    /\ pc = "respond"
    /\ LET sa == session_attributes_of(alexa_request) IN
       IF Raised(sa)
       THEN /\ Finish(Handled(OtherException(sa)))
            /\ UNCHANGED called
       ELSE /\ called' = called \cup {"respond_to_user"}
            /\ Finish(JSONResponse(respond_to_user(intent, user_text, sa.v), 200))
    /\ UNCHANGED <<body, alexa_request, is_valid, intent, user_text, served, classifyVars>>

\* the transport sends the response, or the rejection, and the call's
\* locals are gone
Return ==
    /\ pc = "done"
    /\ pc' = "idle"
    /\ served' = served + 1
    /\ body' = NoBody
    /\ alexa_request' = NoValue
    /\ is_valid' = FALSE
    /\ intent' = NoValue
    /\ user_text' = NoValue
    /\ result' = NoResult
    /\ called' = {}
    /\ UNCHANGED classifyVars

Init ==
    /\ pc = "idle"
    /\ body = NoBody
    /\ alexa_request = NoValue
    /\ is_valid = FALSE
    /\ intent = NoValue
    /\ user_text = NoValue
    /\ result = NoResult
    /\ called = {}
    /\ served = 0
    /\ cpc = "idle"
    /\ utterance = <<>>
    /\ choice = "none"

Next ==
    \/ Receive
    \/ ParseBody
    \/ VerifyRequest
    \/ CheckSkillId
    \/ ExtractIntent
    \/ Respond
    \/ Return

Spec == Init /\ [][Next]_vars

-----------------------------------------------------------------------------
(* What a body says, read off the body itself *)

Member(j, key) ==
    IF j.k = "obj" /\ key \in DOMAIN j.v THEN j.v[key] ELSE Absent

BodyJson(b) == IF b.bytes = "json" THEN b.value ELSE Absent

RequestOf(b) == Member(BodyJson(b), "request")

TypeTagOf(b) == Member(RequestOf(b), "type")

IntentOf(b) == Member(RequestOf(b), "intent")

QuerySlotOf(b) == Member(Member(IntentOf(b), "slots"), "query")

QueryValueOf(b) == Member(QuerySlotOf(b), "value")

SessionOf(b) == Member(BodyJson(b), "session")

ApplicationIdOf(b) == Member(Member(SessionOf(b), "application"), "applicationId")

\* the body names this skill
ForThisSkill(b) == EqStr(ApplicationIdOf(b), ALEXA_SKILL_ID)

\* the session attributes the body carries, the empty mapping when it has none
InboundAttributes(b) ==
    IF Member(SessionOf(b), "attributes").k = "absent" THEN EmptyObj
    ELSE Member(SessionOf(b), "attributes")

\* the name of the intent as the utterance spells it
IntentNameText(b) ==
    IF Member(IntentOf(b), "name").k = "absent" THEN "Unknown"
    ELSE Format(Member(IntentOf(b), "name"))

HasQueryValue(b) == QueryValueOf(b).k = "str" /\ QueryValueOf(b).v # ""

ExpectedUtterance(b) ==
    IF HasQueryValue(b) THEN QueryValueOf(b) ELSE Str("Intent: " \o IntentNameText(b))

Returned == pc = "done"

ReturnedEnvelope == pc = "done" /\ result.kind = "JSONResponse"

NormalAnswer == ReturnedEnvelope /\ result.status_code = 200

Apology == ReturnedEnvelope /\ result.content = error_response

Rejected == pc = "done" /\ result.kind = "HTTPException"

TextOut == result.content.response.outputSpeech.text

EndsSession == result.content.response.shouldEndSession

WellFormedEnvelope(e) ==
    /\ DOMAIN e = {"version", "sessionAttributes", "response"}
    /\ DOMAIN e.response = {"outputSpeech", "shouldEndSession"}
    /\ DOMAIN e.response.outputSpeech = {"type", "text"}
    /\ e.response.outputSpeech.type = "PlainText"
    /\ e.response.shouldEndSession \in BOOLEAN

Ran(f) == f \in called

-----------------------------------------------------------------------------
(* Claims *)

\* C1: every call of alexa_webhook ends by returning a well-formed envelope
\* {version, sessionAttributes, response}; nothing else escapes.
C1_AlwaysEnvelope ==
    Returned => ReturnedEnvelope /\ WellFormedEnvelope(result.content)

\* C2: in every returned envelope shouldEndSession is true exactly when the
\* type tag is SessionEndedRequest or the call took the catch-all apology path.
C2_EndSessionExactly ==
    ReturnedEnvelope =>
        (EndsSession <=> (EqStr(TypeTagOf(body), "SessionEndedRequest") \/ Apology))

\* C3: a LaunchRequest for this skill is answered with the welcome message and
\* shouldEndSession false, and only a LaunchRequest gets the welcome message.
C3_WelcomeExactlyForLaunch ==
    /\ (Returned /\ ForThisSkill(body) /\ EqStr(TypeTagOf(body), "LaunchRequest"))
          => (NormalAnswer /\ TextOut = WelcomeText /\ ~EndsSession)
    /\ (ReturnedEnvelope /\ TextOut = WelcomeText)
          => EqStr(TypeTagOf(body), "LaunchRequest")

\* C4: a SessionEndedRequest for this skill is answered with the goodbye
\* message and shouldEndSession true, whatever else the body holds.
C4_GoodbyeForSessionEnded ==
    (Returned /\ ForThisSkill(body) /\ EqStr(TypeTagOf(body), "SessionEndedRequest"))
        => (NormalAnswer /\ TextOut = GoodbyeText /\ EndsSession)

C4_Witness ==
    /\ Returned
    /\ ForThisSkill(body)
    /\ EqStr(TypeTagOf(body), "SessionEndedRequest")
    /\ InboundAttributes(body) = MkObj([turn |-> Str("2"), topic |-> Str("news")])
    /\ IntentOf(body).k = "obj"
    /\ Ran("respond_to_user")

\* C5: for an IntentRequest, extract_user_intent_and_text yields the value of
\* the query slot when that is non-empty, and "Intent: " + intent name otherwise.
C5_UtteranceOfIntent ==
    (Ran("extract_user_intent_and_text") /\ EqStr(TypeTagOf(body), "IntentRequest"))
        => user_text = ExpectedUtterance(body)

\* C6: every returned envelope carries exactly the inbound session attributes,
\* the empty mapping when there are none.
C6_SessionRoundTrip ==
    ReturnedEnvelope =>
        /\ "sessionAttributes" \in DOMAIN result.content
        /\ result.content.sessionAttributes = InboundAttributes(body)

\* C7: a malformed body (invalid JSON, invalid encoding) is answered with the
\* apology envelope and shouldEndSession true, not with a bare error.
C7_MalformedGetsApology ==
    (Returned /\ body.bytes \in {"invalid_json", "invalid_encoding"})
        => (Apology /\ EndsSession)

\* C8: the gate and the skill-identifier check come before any processing: when
\* the gate fails or the applicationId is missing or differs, neither
\* extract_user_intent_and_text nor respond_to_user runs in that call and no
\* normal answer is produced; and they run only after the gate has passed.
C8_RejectedBeforeProcessing ==
    /\ ((Ran("verify_alexa_request") /\ ~is_valid) \/ ~ForThisSkill(body))
          => /\ ~Ran("extract_user_intent_and_text")
             /\ ~Ran("respond_to_user")
             /\ ~NormalAnswer
             /\ pc \notin {"extract", "respond"}
    /\ (Ran("extract_user_intent_and_text") \/ Ran("respond_to_user"))
          => (Ran("verify_alexa_request") /\ is_valid)

C8_Witness ==
    /\ Rejected
    /\ result.status_code = 401
    /\ Ran("verify_alexa_request")
    /\ EqStr(ApplicationIdOf(body), "another-skill-id")
    /\ EqStr(TypeTagOf(body), "IntentRequest")
    /\ HasQueryValue(body)

\* C10: extract_user_intent_and_text never raises, whatever the shape of the
\* parsed request, and a type tag that is none of the three known ones gives
\* ("Unknown", "unknown request").
C10_NormalizeNeverFails ==
    Ran("extract_user_intent_and_text") =>
        /\ user_text # NoValue
        /\ (~(\E t \in {"LaunchRequest", "IntentRequest", "SessionEndedRequest"} :
                EqStr(TypeTagOf(body), t))
              => (intent = Str("Unknown") /\ user_text = Str("unknown request")))

-----------------------------------------------------------------------------
(* The intent classifier: case-insensitive substring match of the utterance  *)
(* against the fixed set of live-information keywords.  Text is a sequence   *)
(* of characters.                                                            *)

UpperCase ==
    <<"A", "B", "C", "D", "E", "F", "G", "H", "I", "J", "K", "L", "M", "N", "O", "P", "Q", "R", "S", "T", "U", "V", "W", "X", "Y", "Z">>

LowerCase ==
    <<"a", "b", "c", "d", "e", "f", "g", "h", "i", "j", "k", "l", "m", "n", "o", "p", "q", "r", "s", "t", "u", "v", "w", "x", "y", "z">>

\* the keyword list, in the order it is written
LIVE_KEYWORDS ==
    << <<"l", "a", "t", "e", "s", "t">>,
       <<"t", "o", "d", "a", "y">>,
       <<"n", "e", "w", "s">>,
       <<"s", "e", "a", "r", "c", "h">>,
       <<"b", "r", "e", "a", "k", "i", "n", "g">>,
       <<"r", "e", "a", "l", " ", "t", "i", "m", "e">>,
       <<"c", "u", "r", "r", "e", "n", "t">>,
       <<"r", "e", "c", "e", "n", "t">>,
       <<"l", "i", "v", "e">>,
       <<"g", "o", "o", "g", "l", "e">>,
       <<"l", "o", "o", "k", " ", "u", "p">> >>

lower_char(c) ==
    IF \E i \in 1..Len(UpperCase) : UpperCase[i] = c
    THEN LowerCase[CHOOSE i \in 1..Len(UpperCase) : UpperCase[i] = c]
    ELSE c

\* text.lower()
lower(text) == [i \in 1..Len(text) |-> lower_char(text[i])]

\* text starts with prefix
RECURSIVE starts_with(_, _)
starts_with(text, prefix) ==
    IF prefix = <<>> THEN TRUE
    ELSE IF text = <<>> THEN FALSE
    ELSE Head(text) = Head(prefix) /\ starts_with(Tail(text), Tail(prefix))

\* keyword in text: scan the text for the first place the keyword starts
RECURSIVE contains(_, _)
contains(text, keyword) ==
    IF starts_with(text, keyword) THEN TRUE
    ELSE IF text = <<>> THEN FALSE
    ELSE contains(Tail(text), keyword)

\* any(keyword in text for keyword in keywords), left to right
RECURSIVE any_keyword(_, _)
any_keyword(text, keywords) ==
    IF keywords = <<>> THEN FALSE
    ELSE IF contains(text, Head(keywords)) THEN TRUE
    ELSE any_keyword(text, Tail(keywords))

\* the match made without folding the letter case
classify_case_sensitive(text) ==
    IF any_keyword(text, LIVE_KEYWORDS) THEN "LiveLookup" ELSE "Conversational"

classify(text) ==
    IF any_keyword(lower(text), LIVE_KEYWORDS) THEN "LiveLookup" ELSE "Conversational"

\* pieces utterances are put together from
Fragments ==
    { <<"l", "a", "t", "e", "s", "t", " ", "n", "e", "w", "s", " ", "o", "n", " ", "X">>,
      <<"t", "e", "l", "l", " ", "m", "e", " ", "a", " ", "j", "o", "k", "e">>,
      <<"w", "h", "a", "t", "'", "s", " ", "t", "h", "e", " ", "w", "e", "a", "t", "h", "e", "r", " ", "t", "o", "d", "a", "y">>,
      <<"L", "A", "T", "E", "S", "T">>,
      <<"B", "r", "e", "a", "k", "i", "n", "g">>,
      <<"l", "i", "v">>,
      <<"e">>,
      <<"d", "e", "l", "i", "v", "e", "r">>,
      <<"L", "o", "o", "k">>,
      <<" ", "u", "p">>,
      <<"r", "e", "a", "l">>,
      <<"t", "i", "m", "e">>,
      <<" ">>,
      <<"G", "o", "o">>,
      <<"g", "l", "e">>,
      <<"h", "e", "l", "l", "o">> }

RECURSIVE Flatten(_)
Flatten(pieces) ==
    IF pieces = <<>> THEN <<>> ELSE Head(pieces) \o Flatten(Tail(pieces))

\* the user says one more piece of the utterance
Hear ==
    /\ cpc = "idle"
    /\ Len(utterance) < MaxFrags
    /\ \E f \in Fragments : utterance' = Append(utterance, f)
    /\ UNCHANGED <<cpc, choice, webhookVars>>

\* the utterance is classified
Classify ==
    /\ cpc = "idle"
    /\ choice' = classify(Flatten(utterance))
    /\ cpc' = "classified"
    /\ UNCHANGED <<utterance, webhookVars>>

\* the next utterance starts
Forget ==
    /\ cpc = "classified"
    /\ cpc' = "idle"
    /\ utterance' = <<>>
    /\ choice' = "none"
    /\ UNCHANGED webhookVars

NextClassify ==
    \/ Hear
    \/ Classify
    \/ Forget

SpecClassify == Init /\ [][NextClassify]_vars

\* the utterance holds keyword at position i, letter case aside
MatchesAt(text, keyword, i) ==
    /\ i + Len(keyword) - 1 <= Len(text)
    /\ \A j \in 1..Len(keyword) : lower_char(text[i + j - 1]) = keyword[j]

MentionsLiveKeyword(text) ==
    \E n \in 1..Len(LIVE_KEYWORDS) : \E i \in 1..Len(text) :
        MatchesAt(text, LIVE_KEYWORDS[n], i)

Said(pieces) == cpc = "classified" /\ utterance = pieces

====
